---- MODULE Spec2Model ----
(***************************************************************************)
(* The To-Do API of app/main.py and app/crud.py as a state machine: the    *)
(* users and tasks tables, the bearer tokens issued so far, the clock, and *)
(* the last request with its response.  One action per endpoint; the       *)
(* registration handler is also given step by step (lookup, lookup,        *)
(* insert) for several workers sharing the database.                       *)
(***************************************************************************)
EXTENDS Integers, Sequences, FiniteSets, TLC

VARIABLES users, tasks, next_task_id, tokens, clock, last, reg

vars == <<users, tasks, next_task_id, tokens, clock, last, reg>>

(* ------------------------------ bounds --------------------------------- *)

\* tasks ever created (the serial of tasks.id stops here)
MaxTasks == 2
\* tasks ever created where the clock advances (SpecTime)
MaxTimedTasks == 1
\* times the clock advances
MaxTicks == 2
\* bearer tokens ever issued
MaxTokens == 2

(* ------------------------- values and columns -------------------------- *)

\* A nullable column or optional field: None, or Some(v).
None == <<>>
Some(v) == <<v>>

TODO == "todo"
IN_PROGRESS == "in_progress"
COMPLETED == "completed"
TaskStatus == {TODO, IN_PROGRESS, COMPLETED}

LOW == "low"
MEDIUM == "medium"
HIGH == "high"
TaskPriority == {LOW, MEDIUM, HIGH}

secret_key == "your-secret-key-change-in-production"
access_token_expire_minutes == 30

(* --------------------------- request inputs ---------------------------- *)

Usernames == {"alice", "bob"}
Emails == {"alice@x.com", "bob@x.com"}
Passwords == {"password123", "hunter2hunter2"}
Salts == {"salt1", "salt2"}

\* minutes one Tick advances the clock by
TickMinutes == 15

\* POST /tasks bodies: a title (the empty one is refused by validation), a
\* status; description, priority and due_date are left at their defaults.
CreateBodies ==
    { [title |-> t, description |-> None, status |-> s,
       priority |-> MEDIUM, due_date |-> None] :
        t \in {"", "T"}, s \in TaskStatus }

\* PUT /tasks/{id} bodies: the fields that were set in the JSON body, each
\* an explicit null (None) or a value.
UpdateBodies ==
    { [k \in {} |-> None],
      [title |-> Some("U")],
      [title |-> Some("")],
      [title |-> None],
      [status |-> Some(TODO)],
      [status |-> Some(IN_PROGRESS)],
      [status |-> Some(COMPLETED)],
      [status |-> None],
      [title |-> Some("U"), status |-> Some(IN_PROGRESS)],
      [title |-> Some("U"), status |-> None],
      [title |-> None, status |-> Some(COMPLETED)] }

\* The bodies the two-task specification updates with.
FewUpdateBodies ==
    { [status |-> Some(COMPLETED)],
      [status |-> None],
      [title |-> Some("U"), status |-> Some(IN_PROGRESS)],
      [title |-> None] }

TaskIds == 1..MaxTasks


(* ----------------- app/security.py (from the specification) ------------ *)

\* Credential Hasher: a salted one-way digest; the salt is part of the hash.
Digest(salt, password) == <<"digest", salt, password>>

get_password_hash(password, salt) ==
    [salt |-> salt, digest |-> Digest(salt, password)]

verify_password(password, hashed) ==
    hashed.digest = Digest(hashed.salt, password)

\* Token Service: the signature binds the subject and the expiry to a key.
Sign(key, sub, exp) == <<"hmac", key, sub, exp>>

create_access_token(sub, expires_delta, key, now) ==
    [sub |-> sub, exp |-> now + expires_delta,
     sig |-> Sign(key, sub, now + expires_delta)]

\* validate with the expiry compared non-strictly: a token is still accepted
\* at the instant of its expiry.
validate_AcceptsAtExpiry(token, now) ==
    IF token.sig # Sign(secret_key, token.sub, token.exp)
    THEN [ok |-> FALSE, error |-> "BadSignature"]
    ELSE IF now > token.exp
    THEN [ok |-> FALSE, error |-> "Expired"]
    ELSE [ok |-> TRUE, sub |-> token.sub]

\* validate: BadSignature for a wrong key or a changed field, Expired when
\* the current time has reached the embedded expiry.
validate(token, now) ==
    IF token.sig # Sign(secret_key, token.sub, token.exp)
    THEN [ok |-> FALSE, error |-> "BadSignature"]
    ELSE IF now >= token.exp
    THEN [ok |-> FALSE, error |-> "Expired"]
    ELSE [ok |-> TRUE, sub |-> token.sub]

\* The dependency of every protected endpoint: no credential is 403, a
\* token that fails validation is 401, otherwise TokenData(username=sub).
get_current_user(cred) ==
    IF cred = None
    THEN [ok |-> FALSE, code |-> 403, detail |-> "Not authenticated"]
    ELSE LET v == validate(cred[1], clock) IN
         IF v.ok
         THEN [ok |-> TRUE, username |-> v.sub]
         ELSE [ok |-> FALSE, code |-> 401, detail |-> v.error]

\* A token signed by someone who does not hold the secret.
Forged ==
    { create_access_token("alice", access_token_expire_minutes, "not-the-secret", clock) }

\* What a client can put in the Authorization header: a token it was
\* issued, or nothing, or a token it made up.
IssuedCredentials == {Some(t) : t \in tokens}
AnyCredentials == {None} \cup {Some(t) : t \in tokens \cup Forged}

(* ---------------------------- app/crud.py ------------------------------ *)

Min(S) == CHOOSE x \in S : \A y \in S : x <= y

\* query.first(): the first of the rows that match (hit, their positions),
\* or None.
First(rows, hit) ==
    IF hit = {} THEN None ELSE Some(rows[Min(hit)])

get_user_by_username(username) ==
    First(users, {i \in 1..Len(users) : users[i].username = username})

get_user_by_email(email) ==
    First(users, {i \in 1..Len(users) : users[i].email = email})

\* The row create_user adds; users.id is the table's serial.
NewUser(username, email, password, salt) ==
    [id |-> Len(users) + 1, username |-> username, email |-> email,
     hashed_password |-> get_password_hash(password, salt), is_active |-> TRUE]

\* unique=True on users.username and users.email: the insert's commit fails
\* when a row with the same username or the same email is there.
UniqueViolation(username, email) ==
    \E i \in 1..Len(users) :
        users[i].username = username \/ users[i].email = email

\* The row create_task adds: completed_at is not among the columns it sets.
NewTask(user_id, task) ==
    [id |-> next_task_id, user_id |-> user_id, title |-> Some(task.title),
     description |-> task.description, status |-> Some(task.status),
     priority |-> Some(task.priority), due_date |-> task.due_date,
     completed_at |-> None]

crud_get_task(task_id) ==
    First(tasks, {i \in 1..Len(tasks) : tasks[i].id = task_id})

\* get_user_tasks without the filter on user_id.
get_user_tasks_AllUsers(user_id, status) ==
    IF status # None
    THEN SelectSeq(tasks, LAMBDA t : t.status = status)
    ELSE tasks

\* status is None (no filter) or Some(s).
get_user_tasks(user_id, status) ==
    LET own == SelectSeq(tasks, LAMBDA t : t.user_id = user_id) IN
    IF status # None
    THEN SelectSeq(own, LAMBDA t : t.status = status)
    ELSE own

\* UpdateData without its elif branch: completed_at is set on completion and
\* never cleared.
UpdateData_NeverCleared(task_update, now) ==
    LET keys == DOMAIN task_update \cup
                (IF "status" \in DOMAIN task_update
                    /\ task_update.status = Some(COMPLETED)
                 THEN {"completed_at"} ELSE {})
    IN [k \in keys |-> IF k = "completed_at" THEN Some(now) ELSE task_update[k]]

\* model_dump(exclude_unset=True) plus the completed_at the status decides.
UpdateData(task_update, now) ==
    LET keys == DOMAIN task_update \cup
                (IF "status" \in DOMAIN task_update THEN {"completed_at"} ELSE {})
    IN [k \in keys |->
          IF k = "completed_at"
          THEN (IF task_update.status = Some(COMPLETED) THEN Some(now) ELSE None)
          ELSE task_update[k]]

\* update_task with a transition rule: a completed task keeps its status
\* and its completed_at, whatever the update says.
crud_update_task_NoReopen(task, task_update, now) ==
    LET update_data == UpdateData(task_update, now) IN
    [f \in DOMAIN task |->
        IF f \in DOMAIN update_data
           /\ ~(task.status = Some(COMPLETED) /\ f \in {"status", "completed_at"})
        THEN update_data[f] ELSE task[f]]

\* The row after the setattr loop of update_task.
crud_update_task(task, task_update, now) ==
    LET update_data == UpdateData(task_update, now) IN
    [f \in DOMAIN task |->
        IF f \in DOMAIN update_data THEN update_data[f] ELSE task[f]]

\* tasks.title is nullable=False: the commit of a row without a title fails.
CommitFails(row) == row.title = None

ReplaceRow(rows, row) ==
    [i \in 1..Len(rows) |-> IF rows[i].id = row.id THEN row ELSE rows[i]]

\* delete_task that deletes every row of the task's owner.
crud_delete_task_OwnersRows(task) ==
    SelectSeq(tasks, LAMBDA t : t.user_id # task.user_id)

crud_delete_task(task) ==
    SelectSeq(tasks, LAMBDA t : t.id # task.id)

RECURSIVE CountStatus(_, _)
CountStatus(rows, status) ==
    IF rows = <<>> THEN 0
    ELSE (IF Head(rows).status = Some(status) THEN 1 ELSE 0)
         + CountStatus(Tail(rows), status)

\* completion_rate is kept as the fraction num/den the division is taken of.
crud_get_task_summary(user_id) ==
    LET rows == get_user_tasks(user_id, None)
        total == Len(rows)
        completed == CountStatus(rows, COMPLETED)
    IN [total_tasks |-> total,
        completed_tasks |-> completed,
        in_progress_tasks |-> CountStatus(rows, IN_PROGRESS),
        todo_tasks |-> CountStatus(rows, TODO),
        completion_rate |->
            IF total > 0 THEN [num |-> completed * 100, den |-> total]
            ELSE [num |-> 0, den |-> 1]]

(* --------------------------- app/schemas.py ---------------------------- *)

\* TaskCreate: title has min_length=1.
ValidTaskCreate(task) == task.title # "" /\ task.status \in TaskStatus

\* TaskUpdate: every field is Optional; a title that is given has min_length=1.
ValidTaskUpdate(task_update) ==
    /\ "title" \in DOMAIN task_update =>
          task_update.title = None \/ task_update.title[1] # ""
    /\ "status" \in DOMAIN task_update =>
          task_update.status = None \/ task_update.status[1] \in TaskStatus

\* TaskResponse (response_model): title, status and priority are required.
ValidTaskResponse(row) ==
    /\ row.title # None
    /\ row.status # None /\ row.status[1] \in TaskStatus
    /\ row.priority # None /\ row.priority[1] \in TaskPriority

(* ---------------------------- app/main.py ------------------------------ *)

\* The last request and its response: the endpoint, the status code, the
\* authenticated username (None before authentication), the task id of the
\* path, the request's parameters or body, and the response body.
Resp(op, code, actor, tid, req, out) ==
    [op |-> op, code |-> code, actor |-> actor, tid |-> tid, req |-> req,
     out |-> out]

\* A response that leaves the database and the issued tokens as they are.
Reply(r) ==
    /\ last' = r
    /\ UNCHANGED <<users, tasks, next_task_id, tokens, clock, reg>>

\* authorize with the comparison left out.
authorize_Anyone(actor_user_id, resource_owner_id) == TRUE

\* "Verify ownership": the actor may act on the task iff the task's user_id
\* is the actor's id.
authorize(actor_user_id, resource_owner_id) == resource_owner_id = actor_user_id

\* register with the email looked up before the username.
register_EmailFirst(username, email, password, salt) ==
    LET req == [username |-> username, email |-> email, password |-> password] IN
    IF get_user_by_email(email) # None
    THEN Reply(Resp("register", 400, None, None, req, "Email already registered"))
    ELSE IF get_user_by_username(username) # None
    THEN Reply(Resp("register", 400, None, None, req, "Username already registered"))
    ELSE LET db_user == NewUser(username, email, password, salt) IN
         /\ users' = Append(users, db_user)
         /\ last' = Resp("register", 201, None, None, req, db_user)
         /\ UNCHANGED <<tasks, next_task_id, tokens, clock, reg>>

\* POST /auth/register, the handler as one step.
register(username, email, password, salt) ==
    LET req == [username |-> username, email |-> email, password |-> password] IN
    IF get_user_by_username(username) # None
    THEN Reply(Resp("register", 400, None, None, req, "Username already registered"))
    ELSE IF get_user_by_email(email) # None
    THEN Reply(Resp("register", 400, None, None, req, "Email already registered"))
    ELSE IF UniqueViolation(username, email)  \* the commit of create_user raises
    THEN Reply(Resp("register", 500, None, None, req, "Internal Server Error"))
    ELSE LET db_user == NewUser(username, email, password, salt) IN
         /\ users' = Append(users, db_user)
         /\ last' = Resp("register", 201, None, None, req, db_user)
         /\ UNCHANGED <<tasks, next_task_id, tokens, clock, reg>>

\* login that issues a token to any existing username, whatever the password.
login_NoPasswordCheck(username, password) ==
    LET req == [username |-> username, password |-> password]
        user == get_user_by_username(username)
    IN
    IF user = None
    THEN Reply(Resp("login", 401, None, None, req, "Incorrect username or password"))
    ELSE LET access_token ==
                 create_access_token(user[1].username, access_token_expire_minutes,
                                     secret_key, clock)
         IN
         /\ tokens' = tokens \cup {access_token}
         /\ last' = Resp("login", 200, None, None, req,
                                          [access_token |-> access_token, token_type |-> "bearer"])
         /\ UNCHANGED <<users, tasks, next_task_id, clock, reg>>

\* POST /auth/login
login(username, password) ==
    LET req == [username |-> username, password |-> password]
        user == get_user_by_username(username)
    IN
    IF user = None \/ ~verify_password(password, user[1].hashed_password)
    THEN Reply(Resp("login", 401, None, None, req, "Incorrect username or password"))
    ELSE LET access_token ==
                 create_access_token(user[1].username, access_token_expire_minutes,
                                     secret_key, clock)
         IN
         /\ tokens' = tokens \cup {access_token}
         /\ last' = Resp("login", 200, None, None, req,
                                          [access_token |-> access_token, token_type |-> "bearer"])
         /\ UNCHANGED <<users, tasks, next_task_id, clock, reg>>

\* POST /tasks
create_task(cred, task) ==
    LET auth == get_current_user(cred) IN
    IF ~auth.ok
    THEN Reply(Resp("create_task", auth.code, None, None, task, auth.detail))
    ELSE
    LET actor == Some(auth.username)
        user == get_user_by_username(auth.username)
    IN
    IF ~ValidTaskCreate(task)
    THEN Reply(Resp("create_task", 422, actor, None, task, "Unprocessable Entity"))
    ELSE IF user = None
    THEN Reply(Resp("create_task", 404, actor, None, task, "User not found"))
    ELSE LET db_task == NewTask(user[1].id, task) IN
         /\ tasks' = Append(tasks, db_task)
         /\ next_task_id' = next_task_id + 1
         /\ last' = Resp("create_task", 201, actor, Some(db_task.id), task, db_task)
         /\ UNCHANGED <<users, tokens, clock, reg>>

\* GET /tasks
list_tasks(cred, status) ==
    LET auth == get_current_user(cred) IN
    IF ~auth.ok
    THEN Reply(Resp("list_tasks", auth.code, None, None, status, auth.detail))
    ELSE
    LET actor == Some(auth.username)
        user == get_user_by_username(auth.username)
    IN
    IF user = None
    THEN Reply(Resp("list_tasks", 404, actor, None, status, "User not found"))
    ELSE LET rows == get_user_tasks(user[1].id, status) IN
         IF \E i \in 1..Len(rows) : ~ValidTaskResponse(rows[i])
         THEN Reply(Resp("list_tasks", 500, actor, None, status, "Internal Server Error"))
         ELSE Reply(Resp("list_tasks", 200, actor, None, status, rows))

\* GET /tasks/{task_id}
get_task(cred, task_id) ==
    LET auth == get_current_user(cred) IN
    IF ~auth.ok
    THEN Reply(Resp("get_task", auth.code, None, Some(task_id), None, auth.detail))
    ELSE
    LET actor == Some(auth.username)
        task == crud_get_task(task_id)
        user == get_user_by_username(auth.username)
    IN
    IF task = None
    THEN Reply(Resp("get_task", 404, actor, Some(task_id), None, "Task not found"))
    ELSE IF user = None  \* user.id of None raises
    THEN Reply(Resp("get_task", 500, actor, Some(task_id), None, "Internal Server Error"))
    ELSE IF ~authorize(user[1].id, task[1].user_id)
    THEN Reply(Resp("get_task", 403, actor, Some(task_id), None, "Not authorized"))
    ELSE IF ~ValidTaskResponse(task[1])
    THEN Reply(Resp("get_task", 500, actor, Some(task_id), None, "Internal Server Error"))
    ELSE Reply(Resp("get_task", 200, actor, Some(task_id), None, task[1]))

\* PUT /tasks/{task_id}
update_task(cred, task_id, task_update) ==
    LET auth == get_current_user(cred) IN
    IF ~auth.ok
    THEN Reply(Resp("update_task", auth.code, None, Some(task_id), task_update, auth.detail))
    ELSE
    LET actor == Some(auth.username)
        task == crud_get_task(task_id)
        user == get_user_by_username(auth.username)
    IN
    IF ~ValidTaskUpdate(task_update)
    THEN Reply(Resp("update_task", 422, actor, Some(task_id), task_update, "Unprocessable Entity"))
    ELSE IF task = None
    THEN Reply(Resp("update_task", 404, actor, Some(task_id), task_update, "Task not found"))
    ELSE IF user = None  \* user.id of None raises
    THEN Reply(Resp("update_task", 500, actor, Some(task_id), task_update, "Internal Server Error"))
    ELSE IF ~authorize(user[1].id, task[1].user_id)
    THEN Reply(Resp("update_task", 403, actor, Some(task_id), task_update, "Not authorized"))
    ELSE LET row == crud_update_task(task[1], task_update, clock) IN
         IF CommitFails(row)  \* the commit raises, nothing is written
         THEN Reply(Resp("update_task", 500, actor, Some(task_id), task_update,
                                          "Internal Server Error"))
         ELSE /\ tasks' = ReplaceRow(tasks, row)
              /\ last' = IF ValidTaskResponse(row)
                         THEN Resp("update_task", 200, actor, Some(task_id), task_update, row)
                         ELSE Resp("update_task", 500, actor, Some(task_id), task_update,
                                                    "Internal Server Error")
              /\ UNCHANGED <<users, next_task_id, tokens, clock, reg>>

\* delete_task with the ownership check ahead of the existence check: the
\* owner of no row is nobody, so a missing task is refused as not owned.
delete_task_OwnerFirst(cred, task_id) ==
    LET auth == get_current_user(cred) IN
    IF ~auth.ok
    THEN Reply(Resp("delete_task", auth.code, None, Some(task_id), None, auth.detail))
    ELSE
    LET actor == Some(auth.username)
        task == crud_get_task(task_id)
        user == get_user_by_username(auth.username)
    IN
    IF user = None
    THEN Reply(Resp("delete_task", 500, actor, Some(task_id), None, "Internal Server Error"))
    ELSE IF task = None \/ ~authorize(user[1].id, task[1].user_id)
    THEN Reply(Resp("delete_task", 403, actor, Some(task_id), None, "Not authorized"))
    ELSE /\ tasks' = crud_delete_task(task[1])
         /\ last' = Resp("delete_task", 204, actor, Some(task_id), None, None)
         /\ UNCHANGED <<users, next_task_id, tokens, clock, reg>>

\* DELETE /tasks/{task_id}
delete_task(cred, task_id) ==
    LET auth == get_current_user(cred) IN
    IF ~auth.ok
    THEN Reply(Resp("delete_task", auth.code, None, Some(task_id), None, auth.detail))
    ELSE
    LET actor == Some(auth.username)
        task == crud_get_task(task_id)
        user == get_user_by_username(auth.username)
    IN
    IF task = None
    THEN Reply(Resp("delete_task", 404, actor, Some(task_id), None, "Task not found"))
    ELSE IF user = None  \* user.id of None raises
    THEN Reply(Resp("delete_task", 500, actor, Some(task_id), None, "Internal Server Error"))
    ELSE IF ~authorize(user[1].id, task[1].user_id)
    THEN Reply(Resp("delete_task", 403, actor, Some(task_id), None, "Not authorized"))
    ELSE /\ tasks' = crud_delete_task(task[1])
         /\ last' = Resp("delete_task", 204, actor, Some(task_id), None, None)
         /\ UNCHANGED <<users, next_task_id, tokens, clock, reg>>

\* GET /tasks/summary/stats
get_task_summary(cred) ==
    LET auth == get_current_user(cred) IN
    IF ~auth.ok
    THEN Reply(Resp("get_task_summary", auth.code, None, None, None, auth.detail))
    ELSE
    LET actor == Some(auth.username)
        user == get_user_by_username(auth.username)
    IN
    IF user = None
    THEN Reply(Resp("get_task_summary", 404, actor, None, None, "User not found"))
    ELSE Reply(Resp("get_task_summary", 200, actor, None, None,
                                     crud_get_task_summary(user[1].id)))

\* GET /users/me
get_current_user_info(cred) ==
    LET auth == get_current_user(cred) IN
    IF ~auth.ok
    THEN Reply(Resp("get_current_user_info", auth.code, None, None, None, auth.detail))
    ELSE
    LET actor == Some(auth.username)
        user == get_user_by_username(auth.username)
    IN
    IF user = None
    THEN Reply(Resp("get_current_user_info", 404, actor, None, None, "User not found"))
    ELSE Reply(Resp("get_current_user_info", 200, actor, None, None, user[1]))


\* Time passes between two requests.
Tick ==
    /\ clock < MaxTicks * TickMinutes
    /\ clock' = clock + TickMinutes
    /\ last' = Resp("tick", 0, None, None, None, None)
    /\ UNCHANGED <<users, tasks, next_task_id, tokens, reg>>

(* ------------------------------- Init ---------------------------------- *)

Procs == {1, 2}

IdleReg == [pc |-> "idle"]

\* An empty database, no token issued, no request made.
Init ==
    /\ users = <<>>
    /\ tasks = <<>>
    /\ next_task_id = 1
    /\ tokens = {}
    /\ clock = 0
    /\ last = Resp("startup", 0, None, None, None, None)
    /\ reg = [p \in Procs |-> IdleReg]

\* The accounts the task endpoints are exercised with.
Accounts ==
    { <<"alice", "alice@x.com", "password123", "salt1">>,
      <<"bob", "bob@x.com", "password123", "salt2">> }

StatusFilters == {None} \cup {Some(x) : x \in TaskStatus}

(* ---- Spec: the API, one request at a time, within one clock reading ---- *)

Register == \E a \in Accounts : register(a[1], a[2], a[3], a[4])

Login ==
    /\ Cardinality(tokens) < MaxTokens
    /\ \E u \in Usernames, p \in Passwords : login(u, p)

CreateTask ==
    /\ next_task_id <= MaxTasks
    /\ \E c \in IssuedCredentials, b \in CreateBodies : create_task(c, b)

ListTasks == \E c \in IssuedCredentials, s \in StatusFilters : list_tasks(c, s)

GetTask == \E c \in IssuedCredentials, i \in TaskIds : get_task(c, i)

UpdateTask ==
    \E c \in IssuedCredentials, i \in TaskIds, b \in FewUpdateBodies :
        update_task(c, i, b)

DeleteTask == \E c \in IssuedCredentials, i \in TaskIds : delete_task(c, i)

GetTaskSummary == \E c \in IssuedCredentials : get_task_summary(c)

GetCurrentUserInfo == \E c \in IssuedCredentials : get_current_user_info(c)

Next ==
    \/ Register
    \/ Login
    \/ CreateTask
    \/ ListTasks
    \/ GetTask
    \/ UpdateTask
    \/ DeleteTask
    \/ GetTaskSummary
    \/ GetCurrentUserInfo

Spec == Init /\ [][Next]_vars

(* ---- SpecTime: one task, the clock advancing, any credential ---------- *)

TimedCreateTask ==
    /\ next_task_id <= MaxTimedTasks
    /\ \E c \in AnyCredentials, b \in CreateBodies : create_task(c, b)

TimedGetTask == \E c \in AnyCredentials, i \in 1..MaxTimedTasks : get_task(c, i)

TimedUpdateTask ==
    \E c \in AnyCredentials, i \in 1..MaxTimedTasks, b \in UpdateBodies :
        update_task(c, i, b)

TimedDeleteTask == \E c \in AnyCredentials, i \in 1..MaxTimedTasks : delete_task(c, i)

NextTime ==
    \/ Register
    \/ Login
    \/ TimedCreateTask
    \/ TimedGetTask
    \/ TimedUpdateTask
    \/ TimedDeleteTask
    \/ Tick

SpecTime == Init /\ [][NextTime]_vars

(* ---- SpecAuth: registration and login with every username and email -- *)

RegisterAny ==
    \E u \in Usernames, e \in Emails, p \in Passwords, s \in Salts :
        register(u, e, p, s)

NextAuth ==
    \/ RegisterAny
    \/ Login
    \/ GetCurrentUserInfo

SpecAuth == Init /\ [][NextAuth]_vars

(* ---- SpecReg: register() run by several workers on one database ------- *)
(* Each worker runs the handler's three database calls one at a time; the  *)
(* calls of different workers interleave.                                  *)

RegRequests ==
    { [username |-> u, email |-> e, password |-> "password123", salt |-> "salt1"] :
        u \in Usernames, e \in Emails }

RegDone(p, code, detail) ==
    reg' = [reg EXCEPT ![p] = [reg[p] EXCEPT !.pc = "done", !.code = code,
                                             !.detail = detail]]

\* the request arrives
RegStart(p) ==
    /\ reg[p].pc = "idle"
    /\ \E r \in RegRequests :
          reg' = [reg EXCEPT ![p] = [pc |-> "lookup_username", req |-> r,
                                     code |-> 0, detail |-> ""]]
    /\ UNCHANGED <<users, tasks, next_task_id, tokens, clock, last>>

\* crud.get_user_by_username and the 400 it may lead to
RegLookupUsername(p) ==
    /\ reg[p].pc = "lookup_username"
    /\ IF get_user_by_username(reg[p].req.username) # None
       THEN RegDone(p, 400, "Username already registered")
       ELSE reg' = [reg EXCEPT ![p].pc = "lookup_email"]
    /\ UNCHANGED <<users, tasks, next_task_id, tokens, clock, last>>

\* crud.get_user_by_email and the 400 it may lead to
RegLookupEmail(p) ==
    /\ reg[p].pc = "lookup_email"
    /\ IF get_user_by_email(reg[p].req.email) # None
       THEN RegDone(p, 400, "Email already registered")
       ELSE reg' = [reg EXCEPT ![p].pc = "insert"]
    /\ UNCHANGED <<users, tasks, next_task_id, tokens, clock, last>>

\* crud.create_user: the commit raises on a unique constraint, and register
\* does not catch it.
RegInsert(p) ==
    /\ reg[p].pc = "insert"
    /\ LET r == reg[p].req IN
       IF UniqueViolation(r.username, r.email)
       THEN /\ RegDone(p, 500, "Internal Server Error")
            /\ UNCHANGED users
       ELSE /\ users' = Append(users, NewUser(r.username, r.email, r.password, r.salt))
            /\ RegDone(p, 201, "Created")
    /\ UNCHANGED <<tasks, next_task_id, tokens, clock, last>>

\* the response is sent, the worker takes the next request
RegReturn(p) ==
    /\ reg[p].pc = "done"
    /\ reg' = [reg EXCEPT ![p] = IdleReg]
    /\ UNCHANGED <<users, tasks, next_task_id, tokens, clock, last>>

NextReg ==
    \E p \in Procs :
        \/ RegStart(p)
        \/ RegLookupUsername(p)
        \/ RegLookupEmail(p)
        \/ RegInsert(p)
        \/ RegReturn(p)

SpecReg == Init /\ [][NextReg]_vars

(* ---- SpecToken: the token service, any time-to-live, any key ---------- *)

TokenTTLs == {0, TickMinutes, access_token_expire_minutes}
SigningKeys == {secret_key, "not-the-secret"}

\* issue(subject, ttl) with the key the issuer holds
Issue ==
    /\ Cardinality(tokens) < MaxTokens
    /\ \E sub \in Usernames, ttl \in TokenTTLs, key \in SigningKeys :
          LET token == create_access_token(sub, ttl, key, clock) IN
          /\ tokens' = tokens \cup {token}
          /\ last' = Resp("issue", 0, None, None,
                          [sub |-> sub, ttl |-> ttl, key |-> key], token)
    /\ UNCHANGED <<users, tasks, next_task_id, clock, reg>>

\* validate(token) of a token in circulation
Validate ==
    \E token \in tokens :
        Reply(Resp("validate", 0, None, None, token, validate(token, clock)))

NextToken ==
    \/ Register
    \/ Login
    \/ Issue
    \/ Validate
    \/ Tick

SpecToken == Init /\ [][NextToken]_vars


(* ---- SpecOrphan: accounts removed while their tokens are still valid -- *)
(* Both accounts are registered; a row of the users table can then be      *)
(* deleted behind the API (the API has no endpoint for it), which leaves   *)
(* the tokens issued to that account valid until they expire.              *)

InitOrphan ==
    /\ users = << [id |-> 1, username |-> "alice", email |-> "alice@x.com",
                   hashed_password |-> get_password_hash("password123", "salt1"),
                   is_active |-> TRUE],
                  [id |-> 2, username |-> "bob", email |-> "bob@x.com",
                   hashed_password |-> get_password_hash("password123", "salt2"),
                   is_active |-> TRUE] >>
    /\ tasks = <<>>
    /\ next_task_id = 1
    /\ tokens = {}
    /\ clock = 0
    /\ last = Resp("startup", 0, None, None, None, None)
    /\ reg = [p \in Procs |-> IdleReg]

\* the account's row is deleted from the users table
RemoveAccount ==
    /\ \E k \in 1..Len(users) :
          /\ users' = SelectSeq(users, LAMBDA u : u.id # users[k].id)
          /\ last' = Resp("remove_account", 0, None, None, users[k].username, None)
    /\ UNCHANGED <<tasks, next_task_id, tokens, clock, reg>>

NextOrphan ==
    \/ Login
    \/ RemoveAccount
    \/ TimedCreateTask
    \/ ListTasks
    \/ TimedGetTask
    \/ TimedUpdateTask
    \/ TimedDeleteTask
    \/ GetTaskSummary
    \/ GetCurrentUserInfo

SpecOrphan == InitOrphan /\ [][NextOrphan]_vars


(* ============================ the claims =============================== *)

\* The row with this id in a tasks table, or None.
TaskIn(rows, i) == First(rows, {k \in 1..Len(rows) : rows[k].id = i})

\* The stored task with this id, or None.
TaskAt(i) == TaskIn(tasks, i)

TaskOps == {"get_task", "update_task", "delete_task"}

\* The task exists, the user exists, and the user is its owner.
OwnedBy(username, i) ==
    /\ TaskAt(i) # None
    /\ \E k \in 1..Len(users) :
          users[k].username = username /\ users[k].id = TaskAt(i)[1].user_id

\* The task exists, the user exists, and the task is someone else's.
NotOwnedBy(username, i) ==
    /\ TaskAt(i) # None
    /\ \E k \in 1..Len(users) :
          users[k].username = username /\ users[k].id # TaskAt(i)[1].user_id

\* The request body passed request validation (there is none to pass for
\* GET and DELETE).
WellFormed(r) == r.op = "update_task" => ValidTaskUpdate(r.req)

\* C1: every stored task has completed_at non-null if and only if its
\* status is completed, after any creates and updates.
C1_CompletedAtIffCompleted ==
    \A k \in 1..Len(tasks) :
        (tasks[k].completed_at # None) <=> (tasks[k].status = Some(COMPLETED))

\* C2: an owner's update whose body sets status, and whose write is
\* committed, leaves the task with completed_at equal to the current time
\* when the status set is completed and with completed_at null when it is
\* anything else, whatever the row held before; it is answered 200 unless
\* the status set is null.
C2_UpdateSetsCompletedAt ==
    [][ ( /\ last'.op = "update_task"
          /\ last'.actor # None
          /\ OwnedBy(last'.actor[1], last'.tid[1])
          /\ ValidTaskUpdate(last'.req)
          /\ "status" \in DOMAIN last'.req
          /\ ("title" \in DOMAIN last'.req => last'.req.title # None) )
        => /\ TaskIn(tasks', last'.tid[1]) # None
           /\ TaskIn(tasks', last'.tid[1])[1].completed_at =
                (IF last'.req.status = Some(COMPLETED) THEN Some(clock') ELSE None)
           /\ TaskIn(tasks', last'.tid[1])[1].status = last'.req.status
           /\ (last'.req.status # None => last'.code = 200)
      ]_vars

\* C2's case: after the clock has advanced, an update to completed was
\* answered 200 and the stored row carries the current time.
C2_Witness ==
    /\ clock > 0
    /\ last.op = "update_task" /\ last.code = 200
    /\ last.req = [status |-> Some(COMPLETED)]
    /\ TaskAt(last.tid[1]) # None
    /\ TaskAt(last.tid[1])[1].completed_at = Some(clock)

\* C3: for an existing task and an authenticated user who is not its owner,
\* GET, PUT (with a body that passes validation) and DELETE are answered
\* 403 and leave the tasks table as it was; and whenever a stored task is
\* changed or removed, the request was an update or a delete of that task
\* authenticated as its owner.
C3_OnlyOwnerActs ==
    [][ /\ ( /\ last'.op \in TaskOps
             /\ last'.actor # None
             /\ NotOwnedBy(last'.actor[1], last'.tid[1])
             /\ WellFormed(last') )
           => (last'.code = 403 /\ tasks' = tasks)
        /\ \A i \in 1..MaxTimedTasks :
             (TaskAt(i) # None /\ TaskIn(tasks', i) # TaskAt(i))
             => /\ last'.op \in {"update_task", "delete_task"}
                /\ last'.tid = Some(i)
                /\ last'.actor # None
                /\ OwnedBy(last'.actor[1], i)
      ]_vars

\* C3's case: a delete of an existing task by the other user was refused.
C3_Witness ==
    /\ last.op = "delete_task" /\ last.code = 403
    /\ last.actor # None
    /\ NotOwnedBy(last.actor[1], last.tid[1])

\* C4: for an authenticated actor, GET, PUT (with a body that passes
\* validation) and DELETE of a task id that is not stored are answered 404,
\* and such a request is answered 403 only when the task is stored and its
\* user_id is not the actor's id.
C4_NotFoundBeforeForbidden ==
    [][ ( last'.op \in TaskOps /\ last'.actor # None /\ WellFormed(last') )
        => /\ TaskAt(last'.tid[1]) = None => last'.code = 404
           /\ last'.code = 403 => NotOwnedBy(last'.actor[1], last'.tid[1])
           /\ last'.code = 404 => TaskAt(last'.tid[1]) = None
      ]_vars

\* C4's case: the only task was deleted, and the other user's update of its
\* id is answered 404.
C4_Witness ==
    /\ last.op = "update_task" /\ last.code = 404
    /\ next_task_id > 1 /\ tasks = <<>>
    /\ last.actor # None
    /\ \E k \in 1..Len(users) : users[k].username = last.actor[1] /\ users[k].id = 2

\* C5: a registration whose username is taken is answered 400 "Username
\* already registered" (also when the email is taken too), one whose
\* username is free and whose email is taken 400 "Email already
\* registered", both leaving the users table as it was; any other
\* registration is answered 201 and adds exactly one row, with that
\* username and email.
C5_RegisterDuplicates ==
    [][ last'.op = "register" =>
        LET r == last'.req
            n == Len(users)
        IN
        IF \E k \in 1..n : users[k].username = r.username
        THEN /\ last'.code = 400 /\ last'.out = "Username already registered"
             /\ users' = users
        ELSE IF \E k \in 1..n : users[k].email = r.email
        THEN /\ last'.code = 400 /\ last'.out = "Email already registered"
             /\ users' = users
        ELSE /\ last'.code = 201
             /\ Len(users') = n + 1
             /\ SubSeq(users', 1, n) = users
             /\ users'[n + 1].username = r.username
             /\ users'[n + 1].email = r.email
             /\ last'.out = users'[n + 1]
      ]_vars

\* C5's case: a free username with a taken email was refused.
C5_Witness ==
    /\ last.op = "register" /\ last.code = 400
    /\ last.out = "Email already registered"
    /\ \A k \in 1..Len(users) : users[k].username # last.req.username
    /\ \E k \in 1..Len(users) : users[k].email = last.req.email

\* C6: under any interleaving of registrations, no two stored users share
\* a username or an email, and a registration that is not answered 201 is
\* answered 400 (duplicate username or duplicate email), nothing else.
C6_ConcurrentRegisterTyped ==
    /\ \A j, k \in 1..Len(users) :
          j # k => /\ users[j].username # users[k].username
                   /\ users[j].email # users[k].email
    /\ \A p \in Procs :
          reg[p].pc = "done" =>
              \/ reg[p].code = 201
              \/ /\ reg[p].code = 400
                 /\ reg[p].detail \in {"Username already registered",
                                      "Email already registered"}

\* C7: a login is answered 200 with a bearer token exactly when a stored
\* user has the username and the password verifies against that user's
\* stored hash; the token's subject is that username and it is the one
\* token issued. Any other login, unknown username or wrong password alike,
\* is answered 401 "Incorrect username or password" and issues no token.
C7_LoginOnlyWithCredentials ==
    [][ last'.op = "login" =>
        LET r == last'.req
            known == {k \in 1..Len(users) : users[k].username = r.username}
            good == \E k \in known :
                       users[k].hashed_password.digest =
                           Digest(users[k].hashed_password.salt, r.password)
        IN
        /\ users' = users
        /\ IF good
           THEN /\ last'.code = 200
                /\ last'.out.token_type = "bearer"
                /\ last'.out.access_token.sub = r.username
                /\ tokens' = tokens \cup {last'.out.access_token}
           ELSE /\ last'.code = 401
                /\ last'.out = "Incorrect username or password"
                /\ tokens' = tokens
      ]_vars

\* C7's case: a user who has logged in before is refused with a wrong
\* password, as an unknown username is.
C7_Witness ==
    /\ last.op = "login" /\ last.code = 401
    /\ \E k \in 1..Len(users) :
          /\ users[k].username = last.req.username
          /\ ~verify_password(last.req.password, users[k].hashed_password)
          /\ \E t \in tokens : t.sub = users[k].username

\* C8: a summary answered 200 reports total_tasks = the number of stored
\* tasks whose user_id is the requesting user's id, completed, in_progress
\* and todo = the number of those with that status, and completion_rate =
\* completed / total * 100, which is 0 when the user has no task.
C8_SummaryCounts ==
    (last.op = "get_task_summary" /\ last.code = 200) =>
        LET me == {k \in 1..Len(users) : users[k].username = last.actor[1]}
            own == {k \in 1..Len(tasks) :
                       \E u \in me : tasks[k].user_id = users[u].id}
            n(status) == Cardinality({k \in own : tasks[k].status = Some(status)})
            out == last.out
        IN
        /\ Cardinality(me) = 1
        /\ out.total_tasks = Cardinality(own)
        /\ out.completed_tasks = n(COMPLETED)
        /\ out.in_progress_tasks = n(IN_PROGRESS)
        /\ out.todo_tasks = n(TODO)
        /\ out.completion_rate.den > 0
        /\ IF Cardinality(own) = 0
           THEN out.completion_rate.num = 0
           ELSE out.completion_rate.num * Cardinality(own) =
                    n(COMPLETED) * 100 * out.completion_rate.den

\* C8's case: two tasks are stored, one of them the requesting user's and
\* completed, and the summary counts that one only.
C8_Witness ==
    /\ last.op = "get_task_summary" /\ last.code = 200
    /\ Len(tasks) = 2
    /\ last.out.total_tasks = 1
    /\ last.out.completed_tasks = 1
    /\ tasks[1].user_id # tasks[2].user_id

\* C9: a request answered with a failure status (4xx or 5xx) leaves the
\* users and the tasks tables exactly as they were before the request.
C9_FailureLeavesStoreUnchanged ==
    [][ last'.code >= 400 => (users' = users /\ tasks' = tasks) ]_vars

\* C10: a token issued at time t with time-to-live ttl expires at t + ttl;
\* validation at time now accepts a token only if its signature is valid
\* under the process secret and now < its expiry, and answers Expired for a
\* validly signed token at any now >= its expiry, so a token issued with
\* ttl = 0 is rejected right after issuance; a login issues a token signed
\* with the process secret that expires access_token_expire_minutes later.
C10_TokenExpiry ==
    /\ last.op = "issue" =>
          /\ last.out.exp = clock + last.req.ttl
          /\ last.req.ttl = 0 => ~validate(last.out, clock).ok
          /\ (last.req.ttl = 0 /\ last.req.key = secret_key) =>
                validate(last.out, clock).error = "Expired"
    /\ last.op = "validate" =>
          LET token == last.req
              signed == token.sig = Sign(secret_key, token.sub, token.exp)
          IN
          /\ last.out.ok => (signed /\ clock < token.exp)
          /\ (signed /\ clock >= token.exp) =>
                (~last.out.ok /\ last.out.error = "Expired")
          /\ ~signed => ~last.out.ok
    /\ (last.op = "login" /\ last.code = 200) =>
          LET token == last.out.access_token IN
          /\ token.exp = clock + access_token_expire_minutes
          /\ token.sig = Sign(secret_key, token.sub, token.exp)

\* C10's case: a validly signed token is validated at the very instant of
\* its expiry, after the clock has advanced, and is answered Expired.
C10_Witness ==
    /\ last.op = "validate"
    /\ clock > 0
    /\ last.req.exp = clock
    /\ last.req.sig = Sign(secret_key, last.req.sub, last.req.exp)
    /\ ~last.out.ok /\ last.out.error = "Expired"

ProtectedOps ==
    {"create_task", "list_tasks", "get_task", "update_task", "delete_task",
     "get_task_summary", "get_current_user_info"}

\* C11: a protected request whose token validates, whose body passes
\* request validation, and whose token's subject has no row in the users
\* table is answered with an unauthenticated or not-found failure (401 or
\* 404), never with success and never with an unhandled error (500), and
\* leaves the tasks table as it was.
C11_MissingAccountIsRefused ==
    [][ ( /\ last'.op \in ProtectedOps
          /\ last'.actor # None
          /\ get_user_by_username(last'.actor[1]) = None
          /\ last'.code # 422 )
        => (last'.code \in {401, 404} /\ tasks' = tasks)
      ]_vars

\* The ids of the tasks that were stored once and have been deleted: ids
\* are handed out in increasing order and every id handed out was stored.
DeletedIds == {i \in 1..(next_task_id - 1) : TaskAt(i) = None}

C13_ListReturnsOwnTasks ==
    ( /\ last.op = "list_tasks"
      /\ last.actor # None
      /\ get_user_by_username(last.actor[1]) # None )
    => LET me == get_user_by_username(last.actor[1])[1].id
           Mine(t) == /\ t.user_id = me
                      /\ (last.req # None => t.status = last.req)
       IN /\ last.code = 200
          /\ last.out = SelectSeq(tasks, Mine)

\* C14: an owner's update that sets status to s2, any of todo, in_progress
\* and completed, on a task whose status is s1, any of the three (s1 = s2
\* included), is answered 200 and leaves the task with status s2; no
\* transition is refused.
C14_AnyTransitionAllowed ==
    [][ \A s1, s2 \in TaskStatus :
          ( /\ last'.op = "update_task"
            /\ last'.actor # None
            /\ OwnedBy(last'.actor[1], last'.tid[1])
            /\ TaskAt(last'.tid[1])[1].status = Some(s1)
            /\ ValidTaskUpdate(last'.req)
            /\ "status" \in DOMAIN last'.req
            /\ last'.req.status = Some(s2)
            /\ ("title" \in DOMAIN last'.req => last'.req.title # None) )
          => /\ last'.code = 200
             /\ last'.out.status = Some(s2)
             /\ TaskIn(tasks', last'.tid[1]) # None
             /\ TaskIn(tasks', last'.tid[1])[1].status = Some(s2)
      ]_vars

\* C14's case: after the clock has advanced twice, over any earlier
\* updates of the task, an update that sets status to completed is answered
\* 200 and returns the task as completed at that time.
C14_Witness ==
    /\ last.op = "update_task" /\ last.code = 200
    /\ last.req = [status |-> Some(COMPLETED)]
    /\ clock = MaxTicks * TickMinutes
    /\ last.out.status = Some(COMPLETED)
    /\ last.out.completed_at = Some(clock)

\* C15: after any creates and updates, every stored task has a status that
\* is one of todo, in_progress and completed and a non-empty title, and the
\* three per-status counts of a summary add up to its total_tasks.
C15_StatusAndTitleAlwaysSet ==
    /\ \A k \in 1..Len(tasks) :
          /\ tasks[k].status # None
          /\ tasks[k].status[1] \in TaskStatus
          /\ tasks[k].title # None
          /\ tasks[k].title[1] # ""
    /\ (last.op = "get_task_summary" /\ last.code = 200) =>
          last.out.completed_tasks + last.out.in_progress_tasks
              + last.out.todo_tasks = last.out.total_tasks

====
